---- MODULE Spec2Model ----
(***************************************************************************)
(* A model of BEM-2D-Python's two numerical engines:                       *)
(*   - FSIClass.py: the fluid-structure coupling toolkit (class FSI);      *)
(*   - functions_influence.py: the Kutta solve loop of quilt / oquilt and  *)
(*     the wake rollup of wake_rollup / owake_rollup.                      *)
(*                                                                         *)
(* Numbers.  The code computes in IEEE doubles.  A number is modelled as   *)
(* an extended rational <<n, d>>: a reduced fraction n/d with d > 0, or    *)
(* one of the three special values <<1,0>> (+inf), <<-1,0>> (-inf) and     *)
(* <<0,0>> (NaN).  The operations follow IEEE where it differs from the    *)
(* field of rationals (x/0, 0/0, inf-inf, 0*inf, comparisons with NaN);    *)
(* rounding and the sign of zero are not modelled.                         *)
(*                                                                         *)
(* Fields.  A displacement or residual field is a sequence of nodes, each  *)
(* a pair <<x, z>>.  The structural solve is the environment: it supplies  *)
(* z-displacements from a small set and x-displacements of zero, so every  *)
(* field has rank <= 1 and its matrix 2-norm is the square root of the sum *)
(* of the squares of its entries.  A 2-norm is stored by its square.       *)
(***************************************************************************)
EXTENDS Integers, Sequences, FiniteSets, TLC

\* ------------------------------------------------------------------ bounds
NFluidNodes == 2        \* Body.N + 1 fluid panel nodes
NSolidNodes == 2        \* Solid.Nelements + 1 structural nodes (Solid.Nnodes)
fixedCounter == 1       \* Solid.fixedCounter, the clamped nodes at the leading end
MaxOuterCorr == 3       \* nOuterCorrMax handed to readFsiControls
MaxTimeSteps == 2       \* timesteps the FSI driver runs
MaxCycles == 4          \* FSI sub-iterations explored in one run
MaxNumber == 1000000000 \* largest integer a fraction of the model may need

\* ------------------------------------------------------- extended rationals
Abs(n) == IF n < 0 THEN -n ELSE n

Sign(n) == IF n < 0 THEN -1 ELSE IF n > 0 THEN 1 ELSE 0

RECURSIVE GCD(_, _)
GCD(a, b) == IF b = 0 THEN a ELSE GCD(b, a % b)

\* The reduced representation of n/d; a zero denominator gives inf or NaN.
Q(n, d) ==
    IF d = 0 THEN <<Sign(n), 0>>
    ELSE LET g == GCD(Abs(n), Abs(d))
         IN  <<(Sign(d) * n) \div g, Abs(d) \div g>>

Zero == <<0, 1>>
One == <<1, 1>>
NaN == <<0, 0>>
PosInf == <<1, 0>>
NegInf == <<-1, 0>>

\* A number whose fraction needs an integer beyond MaxNumber: the model does not
\* follow a run into a state that holds one (see Known).
Huge == <<0, -1>>

IsHuge(a) == a[2] < 0
IsNaN(a) == a = NaN
IsFinite(a) == a[2] > 0

\* The product x * y stays within MaxNumber.
Fits(x, y) == x = 0 \/ y = 0 \/ Abs(x) <= MaxNumber \div Abs(y)

FAdd(a, b) ==
    IF IsHuge(a) \/ IsHuge(b) THEN Huge
    ELSE IF IsNaN(a) \/ IsNaN(b) THEN NaN
    ELSE IF ~IsFinite(a) /\ ~IsFinite(b) THEN (IF a = b THEN a ELSE NaN)
    ELSE IF ~IsFinite(a) THEN a
    ELSE IF ~IsFinite(b) THEN b
    ELSE LET g == GCD(a[2], b[2])
             p == b[2] \div g
             q == a[2] \div g
         IN  IF Fits(a[1], p) /\ Fits(b[1], q) /\ Fits(q, b[2])
             THEN Q(a[1] * p + b[1] * q, q * b[2])
             ELSE Huge

FNeg(a) == IF IsHuge(a) THEN Huge ELSE <<-a[1], a[2]>>

FSub(a, b) == FAdd(a, FNeg(b))

\* The common factors are cancelled crosswise before the products are formed.
FMul(a, b) ==
    IF IsHuge(a) \/ IsHuge(b) THEN Huge
    ELSE IF ~IsFinite(a) \/ ~IsFinite(b) THEN Q(Sign(a[1]) * Sign(b[1]), 0)
    ELSE LET g == GCD(Abs(a[1]), b[2])
             h == GCD(Abs(b[1]), a[2])
         IN  IF Fits(a[1] \div g, b[1] \div h) /\ Fits(a[2] \div h, b[2] \div g)
             THEN Q((a[1] \div g) * (b[1] \div h), (a[2] \div h) * (b[2] \div g))
             ELSE Huge

FRecip(a) == Q(Sign(a[1]) * a[2], Abs(a[1]))

FDiv(a, b) ==
    IF IsHuge(a) \/ IsHuge(b) THEN Huge
    ELSE IF IsNaN(a) \/ IsNaN(b) THEN NaN
    ELSE IF ~IsFinite(b) THEN (IF IsFinite(a) THEN Zero ELSE NaN)
    ELSE IF b = Zero THEN Q(a[1], 0)
    ELSE FMul(a, FRecip(b))

FAbs(a) == IF IsHuge(a) THEN Huge ELSE <<Abs(a[1]), a[2]>>

\* The two numbers can be compared without leaving the range.
Comparable(a, b) ==
    /\ ~IsHuge(a) /\ ~IsHuge(b)
    /\ (IsFinite(a) /\ IsFinite(b)) =>
          LET g == GCD(a[2], b[2])
          IN  Fits(a[1], b[2] \div g) /\ Fits(b[1], a[2] \div g)

\* a < b as IEEE compares: false when either side is NaN.
FLess(a, b) ==
    IF IsNaN(a) \/ IsNaN(b) THEN FALSE
    ELSE IF ~IsFinite(a) /\ ~IsFinite(b) THEN a[1] < b[1]
    ELSE IF ~IsFinite(a) THEN a[1] < 0
    ELSE IF ~IsFinite(b) THEN b[1] > 0
    ELSE LET g == GCD(a[2], b[2])
         IN  a[1] * (b[2] \div g) < b[1] * (a[2] \div g)

\* a == b as IEEE compares: NaN equals nothing, itself included.
FEq(a, b) == ~IsNaN(a) /\ ~IsNaN(b) /\ a = b

\* The larger of the two; NaN when either is NaN (np.max, np.linalg.norm).
FMax(a, b) ==
    IF ~Comparable(a, b) THEN Huge
    ELSE IF IsNaN(a) \/ IsNaN(b) THEN NaN
    ELSE IF FLess(a, b) THEN b ELSE a

\* ------------------------------------------------------------------ fields
ZeroField(n) == [k \in 1..n |-> <<Zero, Zero>>]

FieldAdd(A, B) == [k \in 1..Len(A) |-> <<FAdd(A[k][1], B[k][1]), FAdd(A[k][2], B[k][2])>>]

FieldSub(A, B) == [k \in 1..Len(A) |-> <<FSub(A[k][1], B[k][1]), FSub(A[k][2], B[k][2])>>]

FieldScale(f, A) == [k \in 1..Len(A) |-> <<FMul(f, A[k][1]), FMul(f, A[k][2])>>]

\* Entry (a, b) of np.dot(A.T, B): the sum over the nodes of A[n][a] * B[n][b].
RECURSIVE DotEntry(_, _, _, _, _)
DotEntry(A, B, a, b, n) ==
    IF n = 0 THEN Zero
    ELSE FAdd(DotEntry(A, B, a, b, n - 1), FMul(A[n][a], B[n][b]))

\* np.dot(A.T, B) for two (n x 2) fields: a 2 x 2 matrix.
DotT(A, B) == [a \in 1..2 |-> [b \in 1..2 |-> DotEntry(A, B, a, b, Len(A))]]

\* The square of np.linalg.norm(A, ord=2) of a field of rank <= 1: the sum of
\* the squares of its entries.
Norm2Sq(A) == FAdd(DotEntry(A, A, 1, 1, Len(A)), DotEntry(A, A, 2, 2, Len(A)))

\* np.linalg.norm(A, ord=np.inf): the largest row sum of absolute values.
RECURSIVE NormInf(_, _)
NormInf(A, n) ==
    IF n = 0 THEN Zero
    ELSE FMax(NormInf(A, n - 1), FAdd(FAbs(A[n][1]), FAbs(A[n][2])))

\* np.linalg.norm(M, ord=2) of a 2 x 2 matrix whose only non-zero entry can be
\* M[2][2] (the x column of every field is zero): |M[2][2]|; NaN entries give NaN.
Norm2Mat(M) ==
    IF \E a \in 1..2 : \E b \in 1..2 : IsHuge(M[a][b]) THEN Huge
    ELSE IF \E a \in 1..2 : \E b \in 1..2 : IsNaN(M[a][b]) THEN NaN
    ELSE FAbs(M[2][2])

\* No entry of the field left the range of the model.
Known(A) == \A k \in 1..Len(A) : ~IsHuge(A[k][1]) /\ ~IsHuge(A[k][2])

MatScale(f, M) == [a \in 1..2 |-> [b \in 1..2 |-> FMul(f, M[a][b])]]

MatDiv(M, q) == [a \in 1..2 |-> [b \in 1..2 |-> FDiv(M[a][b], q)]]

\* ------------------------------------------------------------ FSI: inputs
\* fixedPtRelax values the user may hand to readFsiControls.
FixedPtRelaxValues == {<<1, 2>>, <<1, 1>>}

\* couplingScheme values the driver may be configured with; "Other" stands for
\* every string that is neither of the two valid names.
CouplingSchemes == {"FixedRelaxation", "Aitken", "Other"}

\* What the structural solve and getDisplacements may hand back: the panel
\* displacements DU and the structural node positions (x is zero, z is 0 or 1):
\* the body at rest, only its trailing node deflected, every node deflected.
TipField(n) == [k \in 1..n |-> <<Zero, IF k = n THEN One ELSE Zero>>]

UniformField(n) == [k \in 1..n |-> <<Zero, One>>]

SolveOutcomes ==
    { <<ZeroField(NFluidNodes), ZeroField(NSolidNodes)>>,
      <<TipField(NFluidNodes), TipField(NSolidNodes)>>,
      <<UniformField(NFluidNodes), UniformField(NSolidNodes)>> }

\* An attribute that __init__ does not create.
Unset == <<0, -2>>

VARIABLES
    \* class FSI
    fluidNodeDispl, fluidNodeDisplOld, solidNodeDispl, nodeDispl, nodeDisplOld,
    fsiResidual, fsiResidualOld, nodeResidual, nodeResidualOld,
    initialFsiResidualNorm, maxInitialFsiResidualNorm,
    fsiResidualNorm, maxFsiResidualNorm, maxMagFsiResidual, DU,
    fsiRelaxationFactor, fsiRelaxationFactorMin, nOuterCorr,
    \* Solid: nodes and tempNodes, both relative to the rigid kinematic position
    solidNodes, solidTempNodes,
    \* the FSI driver: its position, configuration and what the last call did
    fsiPc, outerCorr, i_t, couplingScheme, fsiOutcome,
    \* history: what the calls before the current one produced
    hResidual, hNodeResidual, hPrevResidual, hPrevNodeResidual,
    hDisplBefore, hNodeDisplBefore, hFactorBefore, hCalcCalls, hRelaxCalls, hCycles,
    \* PyFEA: the beam solver's state at the start of the step (3 DOFs per node)
    \* and at its end (3 DOFs per free node)
    PyFEA_U_n, PyFEA_Udot_n, PyFEA_U_nPlus, PyFEA_Udot_nPlus, PyFEA_UdotDot_nPlus,
    \* history: the raw L2 (squared) and infinity norms of the residual of the
    \* latest calcFSIResidual call with outerCorr == 1
    hInitL2, hInitLinf

fsiVars == <<fluidNodeDispl, fluidNodeDisplOld, solidNodeDispl, nodeDispl, nodeDisplOld,
             fsiResidual, fsiResidualOld, nodeResidual, nodeResidualOld,
             initialFsiResidualNorm, maxInitialFsiResidualNorm,
             fsiResidualNorm, maxFsiResidualNorm, maxMagFsiResidual, DU,
             fsiRelaxationFactor, fsiRelaxationFactorMin, nOuterCorr,
             solidNodes, solidTempNodes,
             fsiPc, outerCorr, i_t, couplingScheme, fsiOutcome,
             hResidual, hNodeResidual, hPrevResidual, hPrevNodeResidual,
             hDisplBefore, hNodeDisplBefore, hFactorBefore, hCalcCalls, hRelaxCalls, hCycles,
             PyFEA_U_n, PyFEA_Udot_n, PyFEA_U_nPlus, PyFEA_Udot_nPlus, PyFEA_UdotDot_nPlus,
             hInitL2, hInitLinf>>

VARIABLES
    \* quilt / oquilt: the call's arguments, its position and its locals
    kPc, solver, nSwimmers, SW_KUTTA, quilt_i, n_iter,
    \* per swimmer: Swimmer.mu_guess, Swimmer.delta_cp, Body.mu, Body.mu_past,
    \* Body.gamma, Edge.mu, Edge.gamma, Wake.alpha[0]; Body.cp of Swimmers[0]
    mu_guess, delta_cp, Body_mu, Body_mu_past, Body_gamma, Body_cp,
    Edge_mu, Edge_gamma, Wake_alpha,
    \* what quilt has printed or logged about its solve
    kuttaWarnings,
    \* history: Wake.alpha[0] of each swimmer when the call was entered
    hWakeAlpha,
    \* the local a_inv (which matrix it is the inverse of) and, per swimmer, the
    \* number of Body.pressure calls of this quilt call
    a_inv, pressureCalls,
    \* history: Body.mu_past of each swimmer when the call was entered, and the
    \* Body.mu each swimmer held when the preceding call returned
    hMuPastAtEntry, hPrevBodyMu

kuttaVars == <<kPc, solver, nSwimmers, SW_KUTTA, quilt_i, n_iter,
               mu_guess, delta_cp, Body_mu, Body_mu_past, Body_gamma, Body_cp,
               Edge_mu, Edge_gamma, Wake_alpha, kuttaWarnings, hWakeAlpha,
               a_inv, pressureCalls, hMuPastAtEntry, hPrevBodyMu>>

VARIABLES
    \* the wake of each swimmer: Wake.x / Wake.z, and the timestep each element
    \* was shed at
    Wake_x, Wake_shedAt,
    \* the driver of the wake: its position, the timestep number i, the rollup
    \* routine it uses
    wakePc, wake_i, rollupUsed,
    \* history: the positions before the latest rollup, the velocities it used,
    \* and the velocity fields it was run with
    hWakeBefore, hWakeVel, hWakeFields,
    \* Wake.alpha: the strength of every wake element of every swimmer
    Wake_strength

wakeVars == <<Wake_x, Wake_shedAt, wakePc, wake_i, rollupUsed, hWakeBefore, hWakeVel,
              hWakeFields, Wake_strength>>

VARIABLES
    \* the transfers between the fluid and the structural mesh in their linear
    \* mode: which transfer has run, its inputs, and what it produced
    \* (nodalInput of setInterfaceForce; the interpolated panel nodes and DU of
    \* getDisplacements; the collapsed forces colPF of setInterfaceForce)
    transferPc, transferIn, nodalInput, panelInterp, panelDU, colPF

VARIABLES
    \* quilt / oquilt: each swimmer's offsets Swimmer.i_b, i_e, i_w into the
    \* assembled matrices, and the totals n_b, n_e, n_w
    i_b, i_e, i_w, n_b, n_e, n_w

indexVars == <<i_b, i_e, i_w, n_b, n_e, n_w>>

transferVars == <<transferPc, transferIn, nodalInput, panelInterp, panelDU, colPF>>

vars == <<fsiVars, kuttaVars, indexVars, wakeVars, transferVars>>

\* FSI.__init__, with the driver about to read its controls.
FSIInit ==
    /\ fluidNodeDispl = ZeroField(NFluidNodes)
    /\ fluidNodeDisplOld = ZeroField(NFluidNodes)
    /\ solidNodeDispl = ZeroField(NFluidNodes)
    /\ nodeDispl = ZeroField(NSolidNodes)
    /\ nodeDisplOld = ZeroField(NSolidNodes)
    /\ fsiResidual = ZeroField(NFluidNodes)
    /\ fsiResidualOld = ZeroField(NFluidNodes)
    /\ nodeResidual = ZeroField(NSolidNodes)
    /\ nodeResidualOld = ZeroField(NSolidNodes)
    /\ initialFsiResidualNorm = Zero
    /\ maxInitialFsiResidualNorm = Zero
    /\ fsiResidualNorm = Zero
    /\ maxFsiResidualNorm = Zero
    /\ maxMagFsiResidual = Zero
    /\ DU = ZeroField(NFluidNodes)
    /\ fsiRelaxationFactor = Unset
    /\ fsiRelaxationFactorMin = Unset
    /\ nOuterCorr = 0
    /\ solidNodes = ZeroField(NSolidNodes)
    /\ solidTempNodes = ZeroField(NSolidNodes)
    /\ fsiPc = "constructed"
    /\ outerCorr = 1
    /\ i_t = 1
    /\ couplingScheme = "unset"
    /\ fsiOutcome = "none"
    /\ hResidual = ZeroField(NFluidNodes)
    /\ hNodeResidual = ZeroField(NSolidNodes)
    /\ hPrevResidual = ZeroField(NFluidNodes)
    /\ hPrevNodeResidual = ZeroField(NSolidNodes)
    /\ hDisplBefore = ZeroField(NFluidNodes)
    /\ hNodeDisplBefore = ZeroField(NSolidNodes)
    /\ hFactorBefore = Unset
    /\ hCalcCalls = 0
    /\ hRelaxCalls = 0
    /\ hCycles = 0
    /\ PyFEA_U_n = <<>>
    /\ PyFEA_Udot_n = <<>>
    /\ PyFEA_U_nPlus = <<>>
    /\ PyFEA_Udot_nPlus = <<>>
    /\ PyFEA_UdotDot_nPlus = <<>>
    /\ hInitL2 = Zero
    /\ hInitLinf = Zero

beamVars == <<PyFEA_U_n, PyFEA_Udot_n, PyFEA_U_nPlus, PyFEA_Udot_nPlus, PyFEA_UdotDot_nPlus>>

fsiFieldVars == <<fluidNodeDispl, fluidNodeDisplOld, nodeDispl, nodeDisplOld>>

fsiResidualVars == <<solidNodeDispl, fsiResidual, fsiResidualOld, nodeResidual, nodeResidualOld,
                     initialFsiResidualNorm, maxInitialFsiResidualNorm,
                     fsiResidualNorm, maxFsiResidualNorm, maxMagFsiResidual>>

fsiHistoryVars == <<hResidual, hNodeResidual, hPrevResidual, hPrevNodeResidual,
                    hDisplBefore, hNodeDisplBefore, hFactorBefore, hCalcCalls, hRelaxCalls, hCycles>>

\* FSI.readFsiControls(fixedPtRelax, nOuterCorrMax)
readFsiControls(fixedPtRelax, nOuterCorrMax) ==
    /\ fsiPc = "constructed"
    /\ fsiRelaxationFactorMin' = fixedPtRelax
    /\ fsiRelaxationFactor' = fixedPtRelax
    /\ nOuterCorr' = nOuterCorrMax
    /\ fsiPc' = "force"
    /\ UNCHANGED <<kuttaVars, indexVars, wakeVars, transferVars>>
    /\ UNCHANGED <<beamVars, hInitL2, hInitLinf>>
    /\ UNCHANGED <<fsiFieldVars, fsiResidualVars, fsiHistoryVars, DU, solidNodes,
                   solidTempNodes, outerCorr, i_t, couplingScheme, fsiOutcome>>

ZeroVector(n) == [k \in 1..n |-> Zero]

\* The beam's start state taken from the previous end state whenever the
\* timestep number allows it, whatever the sub-iteration.
BeamInitialEverySubIteration(it, oc, held, plus) ==
    IF it <= 1 /\ oc <= 1 THEN ZeroVector(3 * NSolidNodes)
    ELSE ZeroVector(3 * fixedCounter) \o plus

\* setInterfaceForce, lines 204-216: U_n (Udot_n) after the call, from the
\* vector held and the end state U_nPlus (Udot_nPlus) of the free DOFs.
BeamInitial(it, oc, held, plus) ==
    IF it <= 1 /\ oc <= 1 THEN ZeroVector(3 * NSolidNodes)
    ELSE IF it > 0 /\ oc <= 1 THEN ZeroVector(3 * fixedCounter) \o plus
    ELSE held

\* setInterfaceForce, lines 205-211: an nPlus vector after the call.
BeamFinal(it, oc, held) ==
    IF it <= 1 /\ oc <= 1 THEN ZeroVector(3 * NSolidNodes - 3 * fixedCounter) ELSE held

\* The end state the structural solve leaves in U_nPlus: the z displacement of
\* every free node in its second DOF (getDisplacements reads it back at line
\* 243), nothing in the other two.
BeamSolution(temp) ==
    [d \in 1..(3 * NSolidNodes - 3 * fixedCounter) |->
        IF d % 3 = 2 THEN temp[fixedCounter + (d + 1) \div 3][2] ELSE Zero]

\* FSI.setInterfaceForce: the structural mesh position and the beam solver's
\* initial state.  On the first
\* sub-iteration the mesh is put at the rigid kinematic position, on the later
\* ones it is moved by the change of nodeDispl.
setInterfaceForce ==
    /\ fsiPc = "force"
    /\ hCycles < MaxCycles
    /\ hCycles' = hCycles + 1
    /\ solidNodes' = IF outerCorr > 1
                     THEN FieldAdd(solidNodes, FieldSub(nodeDispl, nodeDisplOld))
                     ELSE ZeroField(NSolidNodes)
    /\ Known(solidNodes')
    /\ PyFEA_U_n' = BeamInitial(i_t, outerCorr, PyFEA_U_n, PyFEA_U_nPlus)
    /\ PyFEA_Udot_n' = BeamInitial(i_t, outerCorr, PyFEA_Udot_n, PyFEA_Udot_nPlus)
    /\ PyFEA_U_nPlus' = BeamFinal(i_t, outerCorr, PyFEA_U_nPlus)
    /\ PyFEA_Udot_nPlus' = BeamFinal(i_t, outerCorr, PyFEA_Udot_nPlus)
    /\ PyFEA_UdotDot_nPlus' = BeamFinal(i_t, outerCorr, PyFEA_UdotDot_nPlus)
    /\ fsiPc' = "solve"
    /\ UNCHANGED <<kuttaVars, indexVars, wakeVars, transferVars>>
    /\ UNCHANGED <<hInitL2, hInitLinf>>
    /\ UNCHANGED <<fsiFieldVars, fsiResidualVars, hResidual, hNodeResidual, hPrevResidual,
                   hPrevNodeResidual, hDisplBefore, hNodeDisplBefore, hFactorBefore,
                   hCalcCalls, hRelaxCalls, DU, fsiRelaxationFactor,
                   fsiRelaxationFactorMin, nOuterCorr, solidTempNodes, outerCorr, i_t,
                   couplingScheme, fsiOutcome>>

\* The structural solve followed by FSI.getDisplacements: the new panel
\* displacements DU and the structural node positions Solid.tempNodes.
getDisplacements(du, temp) ==
    /\ fsiPc = "solve"
    /\ DU' = du
    /\ solidTempNodes' = temp
    /\ PyFEA_U_nPlus' = BeamSolution(temp)
    /\ PyFEA_Udot_nPlus' = [d \in DOMAIN BeamSolution(temp) |->
                                FAdd(BeamSolution(temp)[d], BeamSolution(temp)[d])]
    /\ PyFEA_UdotDot_nPlus' = [d \in DOMAIN BeamSolution(temp) |-> FNeg(BeamSolution(temp)[d])]
    /\ fsiPc' = "resid"
    /\ UNCHANGED <<kuttaVars, indexVars, wakeVars, transferVars>>
    /\ UNCHANGED <<PyFEA_U_n, PyFEA_Udot_n, hInitL2, hInitLinf>>
    /\ UNCHANGED <<fsiFieldVars, fsiResidualVars, fsiHistoryVars, fsiRelaxationFactor,
                   fsiRelaxationFactorMin, nOuterCorr, solidNodes, outerCorr, i_t,
                   couplingScheme, fsiOutcome>>

\* The copy-ordering slip: the old residual is taken after the new one is stored.
StoredOldResidualLate(held, computed) == computed

\* calcFSIResidual, lines 334-335: the old residual is the one held on entry.
StoredOldResidual(held, computed) == held

\* calcFSIResidual, lines 339-340: new position minus the displacement applied.
Residual(target, applied) == FieldSub(target, applied)

\* The largest squared magnitude x^2 + z^2 over the nodes (np.max of magFsiResidual,
\* stored by its square).
RECURSIVE MaxMagSq(_, _)
MaxMagSq(A, n) ==
    IF n = 1 THEN FAdd(FMul(A[1][1], A[1][1]), FMul(A[1][2], A[1][2]))
    ELSE FMax(MaxMagSq(A, n - 1), FAdd(FMul(A[n][1], A[n][1]), FMul(A[n][2], A[n][2])))

\* The normalising norm replaced at every call.
CachedNormEveryCall(oc, raw, held) == raw

\* calcFSIResidual, lines 358-360: the normalising norm after the call
CachedNorm(oc, raw, held) == IF oc = 1 THEN raw ELSE held

\* FSI.calcFSIResidual(Solid, outerCorr)
calcFSIResidual ==
    /\ fsiPc = "resid"
    /\ LET res == Residual(DU, fluidNodeDispl)
           nres == Residual(FieldSub(solidTempNodes, solidNodes), nodeDispl)
           l2 == Norm2Sq(res)
           linf == NormInf(res, Len(res))
           init == CachedNorm(outerCorr, l2, initialFsiResidualNorm)
           maxInit == CachedNorm(outerCorr, linf, maxInitialFsiResidualNorm)
       IN  /\ Known(res) /\ Known(nres)
           /\ ~IsHuge(FDiv(l2, init)) /\ ~IsHuge(FDiv(linf, maxInit))
           /\ ~IsHuge(MaxMagSq(res, Len(res)))
           /\ solidNodeDispl' = DU
           /\ fsiResidualOld' = StoredOldResidual(fsiResidual, res)
           /\ nodeResidualOld' = StoredOldResidual(nodeResidual, nres)
           /\ fsiResidual' = res
           /\ nodeResidual' = nres
           /\ initialFsiResidualNorm' = init
           /\ maxInitialFsiResidualNorm' = maxInit
           /\ fsiResidualNorm' = FDiv(l2, init)
           /\ maxFsiResidualNorm' = FDiv(linf, maxInit)
           /\ maxMagFsiResidual' = MaxMagSq(res, Len(res))
           /\ hPrevResidual' = hResidual
           /\ hPrevNodeResidual' = hNodeResidual
           /\ hResidual' = res
           /\ hNodeResidual' = nres
           /\ hInitL2' = IF outerCorr = 1 THEN l2 ELSE hInitL2
           /\ hInitLinf' = IF outerCorr = 1 THEN linf ELSE hInitLinf
    /\ hCalcCalls' = IF hCalcCalls < 2 THEN hCalcCalls + 1 ELSE 2
    /\ fsiPc' = "relax"
    /\ UNCHANGED <<kuttaVars, indexVars, wakeVars, transferVars>>
    /\ UNCHANGED <<beamVars>>
    /\ UNCHANGED <<fsiFieldVars, DU, fsiRelaxationFactor, fsiRelaxationFactorMin, nOuterCorr,
                   solidNodes, solidTempNodes, outerCorr, i_t, couplingScheme, fsiOutcome,
                   hDisplBefore, hNodeDisplBefore, hFactorBefore, hRelaxCalls, hCycles>>

\* setInterfaceDisplacemet, line 66: the fixed-point branch.
UsesFixedPoint(oc, scheme) == oc < 3 \/ scheme = "FixedRelaxation"

\* setInterfaceDisplacemet, line 72: the Aitken branch.
UsesAitken(oc, scheme) == ~UsesFixedPoint(oc, scheme) /\ oc >= 3 /\ scheme = "Aitken"

\* setInterfaceDisplacemet, line 74: the factor times dot(rOld.T, rOld - r) over
\* the squared 2-norm of rOld - r, a 2 x 2 matrix.
AitkenMatrix(f, rOld, r) ==
    LET delta == FieldSub(rOld, r)
    IN  MatDiv(MatScale(f, DotT(rOld, delta)), Norm2Sq(delta))

HasNaN(M) == \E a \in 1..2 : \E b \in 1..2 : IsNaN(M[a][b])

\* setInterfaceDisplacemet, lines 75-77: the 2-norm of the matrix, clamped at 1.
AitkenFactor(f, rOld, r) ==
    LET n == Norm2Mat(AitkenMatrix(f, rOld, r))
    IN  IF IsHuge(n) THEN Huge ELSE IF FLess(One, n) THEN One ELSE n

\* setInterfaceDisplacemet, lines 70-71 and 80-81: displacement + factor * residual.
Relaxed(displ, f, r) == FieldAdd(displ, FieldScale(f, r))

\* setInterfaceDisplacemet, lines 68-69 and 78-79: the old displacement is the
\* one held before the update.
StoredOldDispl(held, updated) == held

\* FSI.setInterfaceDisplacemet(outerCorr, couplingScheme)
\* The driver hands the same configured scheme to every call.  The 2-norm of
\* line 75 is a singular value decomposition: of a matrix of NaN it returns NaN
\* or raises LinAlgError, depending on the numpy build.
setInterfaceDisplacemet(scheme) ==
    /\ fsiPc = "relax"
    /\ couplingScheme \in {"unset", scheme}
    /\ couplingScheme' = scheme
    /\ hDisplBefore' = fluidNodeDispl
    /\ hNodeDisplBefore' = nodeDispl
    /\ hFactorBefore' = fsiRelaxationFactor
    /\ hRelaxCalls' = IF hRelaxCalls < 2 THEN hRelaxCalls + 1 ELSE 2
    /\ \E svdRaises \in
            (IF UsesAitken(outerCorr, scheme)
                   /\ HasNaN(AitkenMatrix(fsiRelaxationFactor, fsiResidualOld, fsiResidual))
             THEN BOOLEAN ELSE {FALSE}) :
          IF svdRaises
          THEN \* line 74 has stored the matrix, line 75 raises
               /\ fsiRelaxationFactor' = NaN
               /\ fsiOutcome' = "raised"
               /\ fsiPc' = "stopped"
               /\ UNCHANGED fsiFieldVars
          ELSE IF UsesFixedPoint(outerCorr, scheme) \/ UsesAitken(outerCorr, scheme)
          THEN LET f == IF UsesFixedPoint(outerCorr, scheme)
                        THEN fsiRelaxationFactor
                        ELSE AitkenFactor(fsiRelaxationFactor, fsiResidualOld, fsiResidual)
                   fluid == Relaxed(fluidNodeDispl, f, fsiResidual)
                   node == Relaxed(nodeDispl, f, nodeResidual)
               IN  /\ ~IsHuge(f) /\ Known(fluid) /\ Known(node)
                   /\ fsiRelaxationFactor' = f
                   /\ fluidNodeDisplOld' = StoredOldDispl(fluidNodeDispl, fluid)
                   /\ nodeDisplOld' = StoredOldDispl(nodeDispl, node)
                   /\ fluidNodeDispl' = fluid
                   /\ nodeDispl' = node
                   /\ fsiOutcome' = "updated"
                   /\ fsiPc' = "advance"
          ELSE \* lines 82-88: the error is printed and the call returns
               /\ fsiOutcome' = "printed"
               /\ fsiPc' = "advance"
               /\ UNCHANGED <<fsiFieldVars, fsiRelaxationFactor>>
    /\ UNCHANGED <<kuttaVars, indexVars, wakeVars, transferVars>>
    /\ UNCHANGED <<beamVars, hInitL2, hInitLinf>>
    /\ UNCHANGED <<fsiResidualVars, DU, fsiRelaxationFactorMin, nOuterCorr, solidNodes,
                   solidTempNodes, outerCorr, i_t,
                   hResidual, hNodeResidual, hPrevResidual, hPrevNodeResidual, hCalcCalls, hCycles>>

\* The driver goes on to the next sub-iteration of the timestep.
NextSubIteration ==
    /\ fsiPc = "advance"
    /\ outerCorr < nOuterCorr
    /\ outerCorr' = outerCorr + 1
    /\ fsiPc' = "force"
    /\ UNCHANGED <<kuttaVars, indexVars, wakeVars, transferVars>>
    /\ UNCHANGED <<beamVars, hInitL2, hInitLinf>>
    /\ UNCHANGED <<fsiFieldVars, fsiResidualVars, fsiHistoryVars, DU, fsiRelaxationFactor,
                   fsiRelaxationFactorMin, nOuterCorr, solidNodes, solidTempNodes, i_t,
                   couplingScheme, fsiOutcome>>

\* The driver ends the timestep (converged, or out of sub-iterations) and
\* starts the next one at sub-iteration 1; it may read the FSI controls again
\* for the new timestep (the same user values) or go on with the ones it has.
NextTimeStep(reread) ==
    /\ fsiPc = "advance"
    /\ i_t < MaxTimeSteps
    /\ i_t' = i_t + 1
    /\ outerCorr' = 1
    /\ fsiRelaxationFactor' = IF reread THEN fsiRelaxationFactorMin ELSE fsiRelaxationFactor
    /\ fsiPc' = "force"
    /\ UNCHANGED <<kuttaVars, indexVars, wakeVars, transferVars>>
    /\ UNCHANGED <<beamVars, hInitL2, hInitLinf>>
    /\ UNCHANGED <<fsiFieldVars, fsiResidualVars, fsiHistoryVars, DU,
                   fsiRelaxationFactorMin, nOuterCorr, solidNodes, solidTempNodes,
                   couplingScheme, fsiOutcome>>

\* ------------------------------------------------------- quilt and oquilt
\* ---- bounds and inputs
NPanels == 2            \* Body.N of every swimmer
MaxSwimmers == 2        \* len(Swimmers) is 1..MaxSwimmers
MaxQuiltStep == 2       \* the timestep number i handed to quilt is 0..MaxQuiltStep
MaxPassesBeforeNextCall == 2    \* loop passes of a call that is followed by another

\* quilt line 108: the iteration cap and the convergence threshold 0.0001
KuttaCap == 1000
KuttaTol == <<1, 10000>>

\* quilt line 89: the constant 0.8 of the second guess
SecondGuessFactor == <<4, 5>>

Solvers == {"quilt", "oquilt"}

\* Edge.mu[1] and Wake.alpha[0] as the caller may have left them.
EdgeMuValues == {Zero, <<3, 1>>}

\* A doublet distribution over the body panels that is zero between its ends.
PanelMu(first, last) ==
    [k \in 1..NPanels |-> IF k = 1 THEN first ELSE IF k = NPanels THEN last ELSE Zero]

\* What one linear solve followed by Body.pressure may produce for a swimmer:
\* <<Body.mu, <<cp[0], cp[-1]>>>>.  The pressure jumps |cp[-1] - cp[0]| are 0
\* (converged), exactly the threshold, and 1.
KuttaOutcomes ==
    { <<PanelMu(Zero, Zero), <<Zero, Zero>>>>,
      <<PanelMu(Zero, <<5, 1>>), <<Zero, KuttaTol>>>>,
      <<PanelMu(<<5, 1>>, Zero), <<One, Zero>>>>,
      <<PanelMu(Zero, <<5, 1>>), <<One, Zero>>>> }

\* The outcomes followed for the secant step: equal doublet strengths on the
\* first and the last panel (a first guess of 0) with a pressure jump of 1,
\* unequal ones with a jump of 2, and a converged one.
SecantOutcomes ==
    { <<PanelMu(<<5, 1>>, <<5, 1>>), <<One, Zero>>>>,
      <<PanelMu(Zero, <<5, 1>>), <<Zero, <<2, 1>>>>>>,
      <<PanelMu(<<2, 1>>, <<5, 1>>), <<Zero, Zero>>>> }

\* The outcomes followed over a sequence of calls: converged with either of
\* two doublet distributions, and a pressure jump of 1.
CallOutcomes ==
    { <<PanelMu(<<5, 1>>, <<2, 1>>), <<Zero, Zero>>>>,
      <<PanelMu(<<2, 1>>, <<5, 1>>), <<Zero, Zero>>>>,
      <<PanelMu(<<5, 1>>, Zero), <<One, Zero>>>> }

\* Wake.get_relevant(i): <<NT, i_0>>, the elements with index below the
\* timestep count.
get_relevant(i) == <<i, 0>>

\* Edge.N: the trailing-edge panel pair
EdgeN == 2

\* lines 18-24 (337-343 in oquilt) for the swimmers s..n in turn; ix holds the
\* offsets given so far and the running counts n_b, n_e, n_w.
RECURSIVE IndexLoop(_, _, _, _)
IndexLoop(s, n, i, ix) ==
    IF s > n THEN ix
    ELSE IndexLoop(s + 1, n, i,
                   [i_b |-> Append(ix.i_b, ix.n_b),
                    i_e |-> Append(ix.i_e, ix.n_e),
                    i_w |-> Append(ix.i_w, ix.n_w),
                    n_b |-> ix.n_b + NPanels,
                    n_e |-> ix.n_e + EdgeN,
                    n_w |-> ix.n_w + get_relevant(i)[1]])

\* The index loop with every swimmer's body offset left at 0.
QuiltIndexUnshifted(n, i) ==
    [IndexLoop(1, n, i, [i_b |-> <<>>, i_e |-> <<>>, i_w |-> <<>>,
                         n_b |-> 0, n_e |-> 0, n_w |-> 0])
        EXCEPT !.i_b = [s \in 1..n |-> 0]]

\* lines 15-24 (334-343 in oquilt): the offsets of n swimmers at timestep i
QuiltIndex(n, i) ==
    IndexLoop(1, n, i, [i_b |-> <<>>, i_e |-> <<>>, i_w |-> <<>>,
                        n_b |-> 0, n_e |-> 0, n_w |-> 0])

KuttaInit ==
    /\ i_b = <<>> /\ i_e = <<>> /\ i_w = <<>>
    /\ n_b = 0 /\ n_e = 0 /\ n_w = 0
    /\ kPc = "idle"
    /\ solver = "unset"
    /\ nSwimmers = 0
    /\ SW_KUTTA = 0
    /\ quilt_i = 0
    /\ n_iter = 0
    /\ mu_guess = <<>>
    /\ delta_cp = <<>>
    /\ Body_mu = <<>>
    /\ Body_mu_past = <<>>
    /\ Body_gamma = <<>>
    /\ Body_cp = <<Zero, Zero>>
    /\ Edge_mu = <<>>
    /\ Edge_gamma = <<>>
    /\ Wake_alpha = <<>>
    /\ kuttaWarnings = 0
    /\ hWakeAlpha = <<>>
    /\ a_inv = "none"
    /\ pressureCalls = <<>>
    /\ hMuPastAtEntry = <<>>
    /\ hPrevBodyMu = <<>>

\* quilt / oquilt, lines 15-59 and 334-392: the call is entered with the
\* caller's swimmers (freshly constructed bodies, Edge.mu[1] and Wake.alpha[0]
\* as the caller left them) and the solve loop is about to start.
quiltAssemble(sv, n, kutta, i, edgePrev, alphaPrev) ==
    /\ kPc = "idle"
    /\ solver' = sv
    /\ nSwimmers' = n
    /\ SW_KUTTA' = kutta
    /\ quilt_i' = i
    /\ n_iter' = 0
    /\ mu_guess' = [s \in 1..n |-> <<Unset, Unset>>]
    /\ delta_cp' = [s \in 1..n |-> <<Unset, Unset>>]
    /\ Body_mu' = [s \in 1..n |-> PanelMu(Zero, Zero)]
    /\ Body_mu_past' = [s \in 1..n |-> <<PanelMu(Zero, Zero), PanelMu(Zero, Zero)>>]
    /\ Body_gamma' = [s \in 1..n |-> [k \in 1..(NPanels + 1) |-> Zero]]
    /\ Edge_mu' = [s \in 1..n |-> <<Zero, edgePrev>>]
    /\ Edge_gamma' = [s \in 1..n |-> <<Zero, Zero>>]
    /\ Wake_alpha' = [s \in 1..n |-> alphaPrev]
    /\ hWakeAlpha' = [s \in 1..n |-> alphaPrev]
    /\ a_inv' = "none"
    /\ pressureCalls' = [s \in 1..n |-> 0]
    /\ hMuPastAtEntry' = [s \in 1..n |-> <<PanelMu(Zero, Zero), PanelMu(Zero, Zero)>>]
    /\ hPrevBodyMu' = [s \in 1..n |-> <<>>]
    /\ i_b' = QuiltIndex(n, i).i_b
    /\ i_e' = QuiltIndex(n, i).i_e
    /\ i_w' = QuiltIndex(n, i).i_w
    /\ n_b' = QuiltIndex(n, i).n_b
    /\ n_e' = QuiltIndex(n, i).n_e
    /\ n_w' = QuiltIndex(n, i).n_w
    /\ kPc' = "loop"
    /\ UNCHANGED <<Body_cp, kuttaWarnings>>
    /\ UNCHANGED <<fsiVars, wakeVars, transferVars>>

\* line 80: the first guess, from the explicit Kutta solution
FirstGuess(mu) == FSub(mu[NPanels], mu[1])

\* line 89: the second guess
SecondGuess(g) == FMul(SecondGuessFactor, g)

\* line 93: change of delta_cp over change of mu_guess
Slope(d, g) == FDiv(FSub(d[1], d[2]), FSub(g[1], g[2]))

\* The secant step taken from the older of the two stored guesses.
NewtonGuessFromOlder(d, g) == FSub(g[2], FDiv(d[1], Slope(d, g)))

\* lines 93-96: the secant step from the two stored pairs
NewtonGuess(d, g) == FSub(g[1], FDiv(d[1], Slope(d, g)))

\* line 107
DeltaCp(cp) == FAbs(FSub(cp[2], cp[1]))

\* The test of line 105 without the swimmer count.
SingleBodyKuttaAnyCount(n, kutta) == kutta # 0

\* line 105 negated: the loop goes on to the pressure-jump test
SingleBodyKutta(n, kutta) == ~(n > 1 \/ kutta = 0)

\* The loop test without the iteration cap (the variant of line 109).
LoopExitsUncapped(d, n) == FLess(d, KuttaTol)

\* line 108
LoopExits(d, n) == FLess(d, KuttaTol) \/ n >= KuttaCap

\* The inverse left as it is in iteration 2.
InverseKept(n, held) == IF n = 1 THEN "augmented" ELSE held

\* lines 70 and 85: a_inv is the inverse of a + c in iteration 1 and of a from
\* iteration 2 on
InverseUsed(n, held) ==
    IF n = 1 THEN "augmented" ELSE IF n = 2 THEN "unaugmented" ELSE held

\* lines 99-104: the right-hand side carries mu_guess[0] into every entry of
\* Body.mu, and Body.pressure carries Body.mu into cp.  A guess that is not a
\* finite number leaves neither a number; otherwise the solve and
\* Body.pressure produce the outcome out.
Solved(guess, out) ==
    IF IsFinite(guess) THEN out
    ELSE <<[k \in 1..NPanels |-> NaN], <<NaN, NaN>>>>

\* One pass through the body of the while loop, lines 60-110 (393-449 in
\* oquilt); outs[s] is what the solve and Body.pressure produce for swimmer s.
KuttaIteration(outs) ==
    /\ kPc = "loop"
    /\ LET n == n_iter + 1
           g == mu_guess[1]
           d == delta_cp[1]
           guess == IF n = 2 THEN <<SecondGuess(g[1]), g[1]>>
                    ELSE <<NewtonGuess(d, g), g[1]>>
           first == IF n = 1 THEN outs[1] ELSE Solved(guess[1], outs[1])
           jump == DeltaCp(first[2])
           single == SingleBodyKutta(nSwimmers, SW_KUTTA)
       IN  /\ n_iter' = n
           /\ IF n = 1
              THEN /\ mu_guess' = [s \in 1..nSwimmers |-> <<FirstGuess(outs[s][1]), Unset>>]
                   /\ Body_mu' = [s \in 1..nSwimmers |-> outs[s][1]]
                   /\ delta_cp' = [s \in 1..nSwimmers |->
                                      IF s = 1 /\ single THEN <<jump, Unset>>
                                      ELSE <<Unset, Unset>>]
              ELSE /\ ~IsHuge(guess[1])
                   /\ mu_guess' = [mu_guess EXCEPT ![1] = guess]
                   /\ Body_mu' = [Body_mu EXCEPT ![1] = first[1]]
                   /\ delta_cp' = [delta_cp EXCEPT ![1] =
                                      IF single THEN <<jump, d[1]>> ELSE <<d[1], d[1]>>]
           /\ a_inv' = InverseUsed(n, a_inv)
           /\ pressureCalls' = [s \in 1..nSwimmers |-> pressureCalls[s] + 1]
           /\ Body_cp' = first[2]
           /\ kPc' = IF ~single \/ LoopExits(jump, n) THEN "post" ELSE "loop"
    /\ UNCHANGED <<solver, nSwimmers, SW_KUTTA, quilt_i, Body_mu_past, Body_gamma,
                   Edge_mu, Edge_gamma, Wake_alpha, kuttaWarnings, hWakeAlpha,
                   hMuPastAtEntry, hPrevBodyMu>>
    /\ UNCHANGED indexVars
    /\ UNCHANGED <<fsiVars, wakeVars, transferVars>>

\* The shed strength with the two edge strengths the other way round.
ShedStrengthSwapped(previous, current) == FSub(current, previous)

\* line 119
ShedStrength(previous, current) == FSub(previous, current)

\* The edge vortex pair without the sign change of its first entry.
EdgeGammaSameSign(mu) == <<mu, mu>>

\* lines 121-122 (457-458 in oquilt)
EdgeGamma(mu) == <<FNeg(mu), mu>>

\* The history shift with the two rows written in the other order, so that
\* row 1 receives the new Body.mu as well.
MuPastShiftedLate(past, mu) == <<mu, mu>>

\* lines 114-115 (453-454 in oquilt): row 0 moves to row 1, Body.mu to row 0
MuPastShifted(past, mu) == <<mu, past[1]>>

\* lines 125-127: gamma of the N + 1 body panel end points
BodyGamma(mu) ==
    [k \in 1..(NPanels + 1) |->
        IF k = 1 THEN FNeg(mu[1])
        ELSE IF k = NPanels + 1 THEN mu[NPanels]
        ELSE FSub(mu[k - 1], mu[k])]

\* quilt lines 112-127, oquilt lines 450-463: the bookkeeping after the loop.
\* oquilt rebinds Edge.mu to the scalar guess and has no Wake.alpha.
quiltFinish ==
    /\ kPc = "post"
    /\ solver = "quilt" =>
           \A s \in 1..nSwimmers : ~IsHuge(ShedStrength(Edge_mu[s][2], mu_guess[s][1]))
    /\ Body_mu_past' = [s \in 1..nSwimmers |-> MuPastShifted(Body_mu_past[s], Body_mu[s])]
    /\ Edge_mu' = [s \in 1..nSwimmers |->
                      IF solver = "quilt" THEN <<mu_guess[s][1], Edge_mu[s][2]>>
                      ELSE <<mu_guess[s][1]>>]
    /\ Wake_alpha' = IF solver = "quilt" /\ quilt_i > 1
                     THEN [s \in 1..nSwimmers |-> ShedStrength(Edge_mu[s][2], mu_guess[s][1])]
                     ELSE Wake_alpha
    /\ Edge_gamma' = [s \in 1..nSwimmers |-> EdgeGamma(mu_guess[s][1])]
    /\ Body_gamma' = [s \in 1..nSwimmers |-> BodyGamma(Body_mu[s])]
    /\ kPc' = "done"
    /\ UNCHANGED <<solver, nSwimmers, SW_KUTTA, quilt_i, n_iter, mu_guess, delta_cp,
                   Body_mu, Body_cp, kuttaWarnings, hWakeAlpha,
                   a_inv, pressureCalls, hMuPastAtEntry, hPrevBodyMu>>
    /\ UNCHANGED indexVars
    /\ UNCHANGED <<fsiVars, wakeVars, transferVars>>

\* The driver's next timestep: quilt (or oquilt) is called again on the same
\* swimmers with the next timestep number, lines 15-59 (334-392); the
\* swimmers' fields are as the preceding call left them.  The next call is
\* followed after calls of at most MaxPassesBeforeNextCall loop passes.
quiltNextCall ==
    /\ kPc = "done"
    /\ quilt_i < MaxQuiltStep
    /\ n_iter <= MaxPassesBeforeNextCall
    /\ quilt_i' = quilt_i + 1
    /\ n_iter' = 0
    /\ a_inv' = "none"
    /\ pressureCalls' = [s \in 1..nSwimmers |-> 0]
    /\ hWakeAlpha' = Wake_alpha
    /\ hMuPastAtEntry' = Body_mu_past
    /\ hPrevBodyMu' = Body_mu
    /\ i_b' = QuiltIndex(nSwimmers, quilt_i + 1).i_b
    /\ i_e' = QuiltIndex(nSwimmers, quilt_i + 1).i_e
    /\ i_w' = QuiltIndex(nSwimmers, quilt_i + 1).i_w
    /\ n_b' = QuiltIndex(nSwimmers, quilt_i + 1).n_b
    /\ n_e' = QuiltIndex(nSwimmers, quilt_i + 1).n_e
    /\ n_w' = QuiltIndex(nSwimmers, quilt_i + 1).n_w
    /\ kPc' = "loop"
    /\ UNCHANGED <<solver, nSwimmers, SW_KUTTA, mu_guess, delta_cp, Body_mu, Body_mu_past,
                   Body_gamma, Body_cp, Edge_mu, Edge_gamma, Wake_alpha, kuttaWarnings>>
    /\ UNCHANGED <<fsiVars, wakeVars, transferVars>>

\* ------------------------------------------------ wake_rollup, owake_rollup
\* ---- bounds and inputs
WakeSwimmers == 2       \* swimmers whose wakes are rolled up
MaxWakeStep == 3        \* the driver runs timesteps 0..MaxWakeStep

DEL_T == <<1, 2>>

\* Velocity fields the influence sums may produce at wake point k of swimmer s.
InducedVelocity(field, s, k) ==
    IF field = "drift" THEN <<One, FNeg(One)>>
    ELSE IF field = "shear" THEN <<Q(s, 1), Q(k, 1)>>
    ELSE <<Zero, Zero>>

\* <<field of (vx, vz), wake strengths that u_psi sums over>> of one rollup
\* call: "rest" stands for wakes and edges of zero strength, anything else for
\* unit strengths
VelocityOutcomes == {<<"rest", "rest">>, <<"drift", "rest">>, <<"shear", "drift">>}

\* Where swimmer s sheds its wake elements: the end of its trailing-edge panel.
EdgeEnd(s) == <<Q(s, 1), Zero>>

WakeInit ==
    /\ Wake_x = [s \in 1..WakeSwimmers |-> <<>>]
    /\ Wake_shedAt = [s \in 1..WakeSwimmers |-> <<>>]
    /\ wakePc = "shed"
    /\ wake_i = 0
    /\ rollupUsed = "unset"
    /\ hWakeBefore = [s \in 1..WakeSwimmers |-> <<>>]
    /\ hWakeVel = [s \in 1..WakeSwimmers |-> <<>>]
    /\ hWakeFields = <<>>
    /\ Wake_strength = [s \in 1..WakeSwimmers |-> <<>>]

\* Swimmer.wake_shed: timestep wake_i adds one element to every wake, after
\* the elements of the earlier timesteps.
WakeShed ==
    /\ wakePc = "shed"
    /\ Wake_x' = [s \in 1..WakeSwimmers |-> Append(Wake_x[s], EdgeEnd(s))]
    /\ Wake_shedAt' = [s \in 1..WakeSwimmers |-> Append(Wake_shedAt[s], wake_i)]
    /\ Wake_strength' = [s \in 1..WakeSwimmers |->
                             Append(Wake_strength[s], Q(wake_i + s, 1))]
    /\ wakePc' = "rollup"
    /\ UNCHANGED <<wake_i, rollupUsed, hWakeBefore, hWakeVel, hWakeFields>>
    /\ UNCHANGED <<fsiVars, kuttaVars, indexVars, transferVars>>

\* lines 230-231: the velocity that moves a wake point
TotalVelocity(v, u) == <<FAdd(v[1], u[1]), FAdd(v[2], u[2])>>

\* calc_psi differenced as in lines 291-297: the velocity a vortex of unit
\* strength at p induces at the target t.  The kernel stands for the decaying
\* one of the source: it turns the separation by a right angle.
VortexVelocity(t, p) == <<FSub(p[2], t[2]), FSub(t[1], p[1])>>

RECURSIVE SumVelocity(_, _, _)
SumVelocity(t, pts, n) ==
    IF n = 0 THEN <<Zero, Zero>>
    ELSE TotalVelocity(SumVelocity(t, pts, n - 1), VortexVelocity(t, pts[n]))

\* lines 282-285: the influencing points of swimmer s, its edge end and the
\* relevant part of its wake as it is when u_psi is called
Influences(X, s, i) == <<EdgeEnd(s)>> \o SubSeq(X[s], 1, get_relevant(i)[1])

RECURSIVE UPsiOver(_, _, _, _)
UPsiOver(X, t, i, n) ==
    IF n = 0 THEN <<Zero, Zero>>
    ELSE TotalVelocity(UPsiOver(X, t, i, n - 1),
                       SumVelocity(t, Influences(X, n, i), Len(Influences(X, n, i))))

\* u_psi(Swimmers, i, 'Wake') for wake point k of swimmer s, lines 254-255 and
\* 277-297: nothing for i <= 1, else the sum over the wakes of all swimmers at
\* their positions X of the moment
UPsi(X, strengths, i, s, k) ==
    IF i <= 1 \/ strengths = "rest" THEN <<Zero, Zero>>
    ELSE UPsiOver(X, X[s][k], i, WakeSwimmers)

\* The update applied to a window that starts one element late.
RolledUpLate(xs, i_0, i_n, vel) ==
    [a \in 1..Len(xs) |->
        IF i_0 + 1 < a /\ a <= i_n + 1 /\ a - i_0 - 1 <= Len(vel)
        THEN <<FAdd(xs[a][1], FMul(vel[a - i_0 - 1][1], DEL_T)),
               FAdd(xs[a][2], FMul(vel[a - i_0 - 1][2], DEL_T))>>
        ELSE xs[a]]

\* The update applied to the whole array: the elements behind the window move
\* with the velocity of its last element.
RolledUpWhole(xs, i_0, i_n, vel) ==
    [a \in 1..Len(xs) |->
        IF i_0 < a /\ Len(vel) > 0
        THEN LET j == IF a - i_0 <= Len(vel) THEN a - i_0 ELSE Len(vel)
             IN  <<FAdd(xs[a][1], FMul(vel[j][1], DEL_T)),
                   FAdd(xs[a][2], FMul(vel[j][2], DEL_T))>>
        ELSE xs[a]]

\* lines 230-231 (553-554 in owake_rollup): x[i_0:i_n] += velocity * DEL_T.
\* Array index a - 1 of the source is position a of the sequence.
RolledUp(xs, i_0, i_n, vel) ==
    [a \in 1..Len(xs) |->
        IF i_0 < a /\ a <= i_n
        THEN <<FAdd(xs[a][1], FMul(vel[a - i_0][1], DEL_T)),
               FAdd(xs[a][2], FMul(vel[a - i_0][2], DEL_T))>>
        ELSE xs[a]]

\* An array with its entries computed: the sequence f as a tuple.
Array(f) == SubSeq(f, 1, Len(f))

\* lines 224-231 for the swimmers s, s + 1, ... of the list in turn: u_psi is
\* computed anew from the wakes as they are (X), then the wake of s is moved.
\* The result is <<the wakes, the velocities used>>.  The window of every
\* swimmer is the one of the last swimmer of the list (line 225).
RECURSIVE RollupLoop(_, _, _, _, _)
RollupLoop(X, V, s, out, i) ==
    IF s > WakeSwimmers THEN <<X, V>>
    ELSE LET NT == get_relevant(i)[1]
             i_0 == get_relevant(i)[2]
             vel == Array([j \in 1..NT |-> TotalVelocity(InducedVelocity(out[1], s, j),
                                                         UPsi(X, out[2], i, s, j))])
         IN  RollupLoop([X EXCEPT ![s] = Array(RolledUp(X[s], i_0, i_0 + NT, vel))],
                        [V EXCEPT ![s] = vel], s + 1, out, i)

\* wake_rollup(Swimmers, DEL_T, i), lines 129-231.
wake_rollup(out) ==
    /\ wakePc = "rollup"
    /\ rollupUsed \in {"unset", "wake_rollup"}
    /\ rollupUsed' = "wake_rollup"
    /\ LET done == RollupLoop(Wake_x, [s \in 1..WakeSwimmers |-> <<>>], 1, out, wake_i)
       IN  /\ hWakeBefore' = Wake_x
           /\ hWakeVel' = IF wake_i = 0 THEN [s \in 1..WakeSwimmers |-> <<>>] ELSE done[2]
           /\ Wake_x' = IF wake_i = 0 THEN Wake_x ELSE done[1]
           /\ \A s \in 1..WakeSwimmers : Known(Wake_x'[s])
    /\ hWakeFields' = out
    /\ wakePc' = "end"
    /\ UNCHANGED <<Wake_shedAt, Wake_strength, wake_i>>
    /\ UNCHANGED <<fsiVars, kuttaVars, indexVars, transferVars>>

\* owake_rollup(Swimmers, DEL_T, i), lines 465-554: NT = i points, stored from
\* array index 1 on.
owake_rollup(out) ==
    /\ wakePc = "rollup"
    /\ rollupUsed \in {"unset", "owake_rollup"}
    /\ rollupUsed' = "owake_rollup"
    /\ LET NT == wake_i
           vel == [s \in 1..WakeSwimmers |->
                      [j \in 1..NT |-> InducedVelocity(out[1], s, j)]]
       IN  /\ hWakeBefore' = Wake_x
           /\ hWakeVel' = IF wake_i = 0 THEN [s \in 1..WakeSwimmers |-> <<>>] ELSE vel
           /\ Wake_x' = IF wake_i = 0 THEN Wake_x
                        ELSE [s \in 1..WakeSwimmers |->
                                 RolledUp(Wake_x[s], 1, wake_i + 1, vel[s])]
    /\ hWakeFields' = out
    /\ wakePc' = "end"
    /\ UNCHANGED <<Wake_shedAt, Wake_strength, wake_i>>
    /\ UNCHANGED <<fsiVars, kuttaVars, indexVars, transferVars>>

\* The driver goes on to the next timestep.
NextWakeStep ==
    /\ wakePc = "end"
    /\ wake_i < MaxWakeStep
    /\ wake_i' = wake_i + 1
    /\ wakePc' = "shed"
    /\ UNCHANGED <<Wake_x, Wake_shedAt, Wake_strength, rollupUsed, hWakeBefore, hWakeVel,
                   hWakeFields>>
    /\ UNCHANGED <<fsiVars, kuttaVars, indexVars, transferVars>>

\* ------------------- setInterfaceForce, getDisplacements: interpolation
\* ---- inputs
\* Arclengths a mesh node may lie at; the source grids run from 1 upwards, so
\* 0 and 3 lie outside a grid of two points.
Arclengths == {Zero, One, <<3, 2>>, <<2, 1>>, <<3, 1>>}

\* Solid.meanline_c0[0.5*Body.N:], the arclengths of the collapsed loads
LoadGrid == <<One, <<2, 1>>>>

\* colPF[:, 0] as the fluid solver may leave it
LoadValues == { <<<<4, 1>>, <<6, 1>>>>, <<<<-2, 1>>, <<5, 1>>>> }

\* tempNodes[:, 2], the arclengths of the structural nodes
BeamGrid == [k \in 1..NSolidNodes |-> <<k, 1>>]

\* bottomNodes and topNodes (x, z) of a beam deflected by bend per node
BottomNodes(bend) == [k \in 1..NSolidNodes |-> <<(<<10 * k, 1>>), (<<bend * k - 1, 1>>)>>]

TopNodes(bend) == [k \in 1..NSolidNodes |-> <<(<<10 * k, 1>>), (<<bend * k + 1, 1>>)>>]

Bends == {0, 2}

\* FLEX_RATIO: nothing rigid, rigid up to 3/2, everything rigid
FlexRatios == {<<-1, 1>>, <<3, 2>>, <<3, 1>>}

\* Body.AF.x, Body.AF.z: the rigid positions of the panel nodes
RigidNodes == [j \in 1..NFluidNodes |-> <<(<<7, 1>>), Zero>>]

\* a <= b as IEEE compares
FLeq(a, b) == FLess(a, b) \/ FEq(a, b)

\* np.interp(x, xp, fp, left, right) for increasing xp (lines 176-178, 289-292)
Interp(x, xp, fp, left, right) ==
    LET n == Len(xp)
    IN  IF FLess(x, xp[1]) THEN left
        ELSE IF FLess(xp[n], x) THEN right
        ELSE IF FEq(x, xp[n]) THEN fp[n]
        ELSE LET j == CHOOSE j \in 1..(n - 1) : FLeq(xp[j], x) /\ FLess(x, xp[j + 1])
                 slope == FDiv(FSub(fp[j + 1], fp[j]), FSub(xp[j + 1], xp[j]))
             IN  FAdd(fp[j], FMul(slope, FSub(x, xp[j])))

\* setInterfaceForce, lines 176-178: left=0, right=0
InterpolatedLoads(query, grid, data) ==
    [k \in 1..Len(query) |-> Interp(query[k], grid, data, Zero, Zero)]

\* getDisplacements, line 287: np.rint of half the number of panel nodes
\* (halves are rounded to the even neighbour)
HalfRounded(n) ==
    IF n % 2 = 0 THEN n \div 2
    ELSE IF (n \div 2) % 2 = 0 THEN n \div 2 ELSE n \div 2 + 1

Column(nodes, c) == [k \in 1..Len(nodes) |-> nodes[k][c]]

\* getDisplacements, lines 289-292 and 300-305: left=True, right=True, which
\* np.interp takes as the number 1.0; the first half of the panel nodes is
\* interpolated from the bottom surface, the rest from the top surface
InterpolatedPanels(meanline, grid, bottom, top) ==
    [j \in 1..Len(meanline) |->
        LET src == IF j <= HalfRounded(Len(meanline)) THEN bottom ELSE top
        IN  <<Interp(meanline[j], grid, Column(src, 1), One, One),
              Interp(meanline[j], grid, Column(src, 2), One, One)>>]

\* getDisplacements, lines 309-312: the loop runs over range(Body.N), the
\* panel nodes but the last
RigidOverride(newp, meanline, flex, rigid) ==
    [j \in 1..Len(newp) |->
        IF j <= Len(newp) - 1 /\ FLeq(meanline[j], flex) THEN rigid[j] ELSE newp[j]]

\* getDisplacements, lines 315-316
PanelDisplacement(newp, rigid) == FieldSub(newp, rigid)

\* Body.N, the panel counts of the bodies whose loads are collapsed, and the
\* forces a panel may carry
MaxPanelCount == 4
PanelForces == {<<One, Zero>>, <<Zero, <<2, 1>>>>}

TransferInit ==
    /\ transferPc = "idle"
    /\ transferIn = <<>>
    /\ nodalInput = <<>>
    /\ panelInterp = <<>>
    /\ panelDU = <<>>
    /\ colPF = <<>>

\* setInterfaceForce with SW_INTERP_MTD == 1, lines 174-178: the collapsed
\* loads are interpolated onto the structural nodes at arclengths query.
interpolateLoads(query, data) ==
    /\ transferPc = "idle"
    /\ transferIn' = [query |-> query, grid |-> LoadGrid, data |-> data]
    /\ nodalInput' = InterpolatedLoads(query, LoadGrid, data)
    /\ transferPc' = "loads"
    /\ UNCHANGED <<panelInterp, panelDU, colPF>>
    /\ UNCHANGED <<fsiVars, kuttaVars, indexVars, wakeVars>>

\* getDisplacements with SW_INTERP_MTD == 1, lines 287-316: the surface of the
\* deflected beam is interpolated onto the panel nodes at arclengths meanline,
\* the rigid nodes are put back, and DU is the difference to Body.AF.
interpolatePanels(meanline, flex, bend) ==
    /\ transferPc = "idle"
    /\ LET newp == InterpolatedPanels(meanline, BeamGrid, BottomNodes(bend), TopNodes(bend))
       IN  /\ transferIn' = [meanline |-> meanline, flex |-> flex, grid |-> BeamGrid,
                             bottom |-> BottomNodes(bend), top |-> TopNodes(bend)]
           /\ panelInterp' = newp
           /\ panelDU' = PanelDisplacement(RigidOverride(newp, meanline, flex, RigidNodes),
                                           RigidNodes)
    /\ transferPc' = "panels"
    /\ UNCHANGED <<nodalInput, colPF>>
    /\ UNCHANGED <<fsiVars, kuttaVars, indexVars, wakeVars>>

\* lines 159-170: the force of panel i and the force of its mirror panel are
\* added for i in xrange(int(0.5 * Body.N)), and the rows are flipped.
Collapsed(pF) ==
    LET half == Len(pF) \div 2
    IN  [r \in 1..half |->
            LET i == half + 1 - r
            IN  <<FAdd(pF[i][1], pF[Len(pF) + 1 - i][1]),
                  FAdd(pF[i][2], pF[Len(pF) + 1 - i][2])>>]

\* setInterfaceForce, lines 144-170: the panel forces pF of the Body.N panels
\* are collapsed onto the camber line.
collapseLoads(pF) ==
    /\ transferPc = "idle"
    /\ transferIn' = [pF |-> pF]
    /\ colPF' = Collapsed(pF)
    /\ transferPc' = "collapse"
    /\ UNCHANGED <<nodalInput, panelInterp, panelDU>>
    /\ UNCHANGED <<fsiVars, kuttaVars, indexVars, wakeVars>>

\* ------------------------------------------------------- specifications
Init == FSIInit /\ KuttaInit /\ WakeInit /\ TransferInit


NextFSI ==
    \/ \E f \in FixedPtRelaxValues : readFsiControls(f, MaxOuterCorr)
    \/ setInterfaceForce
    \/ \E out \in SolveOutcomes : getDisplacements(out[1], out[2])
    \/ calcFSIResidual
    \/ \E scheme \in CouplingSchemes : setInterfaceDisplacemet(scheme)
    \/ NextSubIteration
    \/ \E reread \in BOOLEAN : NextTimeStep(reread)

SpecFSI == Init /\ [][NextFSI]_vars

NextKutta ==
    \/ \E sv \in Solvers, n \in 1..MaxSwimmers, kutta \in {0, 1},
          i \in 0..MaxQuiltStep, edgePrev \in EdgeMuValues :
          \E alphaPrev \in (IF sv = "quilt" THEN EdgeMuValues ELSE {Zero}) :
              quiltAssemble(sv, n, kutta, i, edgePrev, alphaPrev)
    \/ \E outs \in [1..nSwimmers -> KuttaOutcomes] : KuttaIteration(outs)
    \/ quiltFinish

SpecKutta == Init /\ [][NextKutta]_vars

\* quilt / oquilt called timestep after timestep on the same swimmers.
NextQuiltCalls ==
    \/ \E sv \in Solvers, n \in 1..MaxSwimmers, kutta \in {0, 1},
          i \in 0..MaxQuiltStep, edgePrev \in EdgeMuValues :
              quiltAssemble(sv, n, kutta, i, edgePrev, Zero)
    \/ \E outs \in [1..nSwimmers -> CallOutcomes] : KuttaIteration(outs)
    \/ quiltFinish
    \/ quiltNextCall

SpecQuiltCalls == Init /\ [][NextQuiltCalls]_vars

\* One single-body call with the implicit Kutta condition, followed through
\* its secant steps.
NextSecant ==
    \/ \E sv \in Solvers : quiltAssemble(sv, 1, 1, 0, Zero, Zero)
    \/ \E o \in SecantOutcomes : KuttaIteration(<<o>>)
    \/ quiltFinish

SpecSecant == Init /\ [][NextSecant]_vars

NextWake ==
    \/ WakeShed
    \/ \E out \in VelocityOutcomes : wake_rollup(out)
    \/ \E out \in VelocityOutcomes : owake_rollup(out)
    \/ NextWakeStep

SpecWake == Init /\ [][NextWake]_vars

NextTransfer ==
    \/ \E query \in [1..NSolidNodes -> Arclengths], data \in LoadValues :
          interpolateLoads(query, data)
    \/ \E meanline \in [1..NFluidNodes -> Arclengths], flex \in FlexRatios, bend \in Bends :
          interpolatePanels(meanline, flex, bend)
    \/ \E N \in 1..MaxPanelCount : \E pF \in [1..N -> PanelForces] : collapseLoads(pF)

SpecTransfer == Init /\ [][NextTransfer]_vars

\* ------------------------------------------------------------ FSI: claims
ValidScheme == couplingScheme \in {"FixedRelaxation", "Aitken"}

\* C2: a setInterfaceDisplacemet call with a coupling scheme that is neither
\* 'FixedRelaxation' nor 'Aitken' ends in an error that stops the run, whatever
\* outerCorr is, and leaves the displacements and the relaxation factor as they
\* were.  (The code updates for outerCorr < 3 and prints and returns for
\* outerCorr >= 3.)
C2_InvalidSchemeStopsRun ==
    (fsiPc = "advance" /\ ~ValidScheme) =>
        /\ fsiOutcome = "raised"
        /\ fluidNodeDispl = hDisplBefore
        /\ nodeDispl = hNodeDisplBefore
        /\ fsiRelaxationFactor = hFactorBefore

\* C3: after calcFSIResidual with outerCorr == 1 the scaled L2 and infinity
\* norms of the residual are exactly 1.0.  (A zero residual gives 0/0.)
C3_FirstNormsAreOne ==
    (fsiPc = "relax" /\ outerCorr = 1) =>
        FEq(fsiResidualNorm, One) /\ FEq(maxFsiResidualNorm, One)

\* C4: after an Aitken update (outerCorr >= 3, scheme 'Aitken') with
\* fsiResidualOld different from fsiResidual, 0 < fsiRelaxationFactor <= 1.
\* (The factor is 0 when dot(fsiResidualOld.T, fsiResidualOld - fsiResidual) is 0.)
C4_AitkenFactorInRange ==
    (fsiPc = "advance" /\ UsesAitken(outerCorr, couplingScheme)
        /\ fsiResidualOld # fsiResidual) =>
        FLess(Zero, fsiRelaxationFactor) /\ ~FLess(One, fsiRelaxationFactor)

\* C5: in the fixed-point branch (outerCorr < 3, or scheme 'FixedRelaxation')
\* the new displacement is the old one plus fixedPtRelax times the residual,
\* fixedPtRelax being the value handed to readFsiControls.  (The branch uses
\* fsiRelaxationFactor, which an Aitken update of an earlier timestep changed.)
C5_FixedBranchUsesUserFactor ==
    (fsiPc = "advance" /\ ValidScheme /\ UsesFixedPoint(outerCorr, couplingScheme)) =>
        /\ fluidNodeDispl = Relaxed(hDisplBefore, fsiRelaxationFactorMin, fsiResidual)
        /\ nodeDispl = Relaxed(hNodeDisplBefore, fsiRelaxationFactorMin, nodeResidual)

\* C8: a full cycle with a valid scheme in which the structural solve returns no
\* displacement and none was applied ends with zero residuals, the
\* displacements unchanged and the relaxation factor equal to its value before
\* the cycle.  (An Aitken update with two zero residuals divides 0 by 0.)
C8_ZeroCycleChangesNothing ==
    (fsiPc \in {"advance", "stopped"} /\ ValidScheme
        /\ DU = ZeroField(NFluidNodes) /\ solidTempNodes = ZeroField(NSolidNodes)
        /\ solidNodes = ZeroField(NSolidNodes)
        /\ hDisplBefore = ZeroField(NFluidNodes)
        /\ hNodeDisplBefore = ZeroField(NSolidNodes)) =>
        /\ fsiResidual = ZeroField(NFluidNodes)
        /\ nodeResidual = ZeroField(NSolidNodes)
        /\ fluidNodeDispl = hDisplBefore
        /\ nodeDispl = hNodeDisplBefore
        /\ FEq(fsiRelaxationFactor, hFactorBefore)

\* C9: when a residual computation finishes (valid scheme), fsiResidualOld and
\* nodeResidualOld hold the residuals the preceding calcFSIResidual call
\* produced, and fluidNodeDisplOld and nodeDisplOld hold the displacements that
\* were current before the most recent setInterfaceDisplacemet call.
C9_OldFieldsHoldPrior ==
    (fsiPc = "relax" /\ ValidScheme) =>
        /\ hCalcCalls >= 2 =>
              fsiResidualOld = hPrevResidual /\ nodeResidualOld = hPrevNodeResidual
        /\ hRelaxCalls >= 1 =>
              fluidNodeDisplOld = hDisplBefore /\ nodeDisplOld = hNodeDisplBefore

\* C9's case: a second or later residual computation, after a relaxation that
\* moved the interface, with a residual that differs from the previous one.
C9_Witness ==
    /\ fsiPc = "relax" /\ ValidScheme
    /\ hCalcCalls >= 2 /\ hRelaxCalls >= 1
    /\ fsiResidualOld # fsiResidual /\ fsiResidualOld # ZeroField(NFluidNodes)
    /\ nodeResidualOld # nodeResidual
    /\ fluidNodeDisplOld # fluidNodeDispl
    /\ nodeDisplOld # nodeDispl

\* ---------------------------------------------------------- Kutta: claims
\* C1: for a single swimmer with SW_KUTTA enabled the solve loop of quilt and
\* of oquilt runs at least 1 and at most 1000 iterations whatever cp values
\* Body.pressure returns, and it exits at an iteration n < 1000 only if
\* delta_cp[0] < 0.0001 at that iteration.
C1_KuttaLoopBounded ==
    (kPc # "idle" /\ SingleBodyKutta(nSwimmers, SW_KUTTA)) =>
        /\ n_iter <= KuttaCap
        /\ kPc = "loop" => n_iter < KuttaCap
        /\ kPc \in {"post", "done"} =>
              /\ n_iter >= 1
              /\ n_iter < KuttaCap => FLess(delta_cp[1][1], KuttaTol)

\* C1's case: the loop has left at the cap with the pressure jump still at or
\* above the threshold.
C1_Witness ==
    /\ kPc = "post" /\ SingleBodyKutta(nSwimmers, SW_KUTTA)
    /\ n_iter = KuttaCap
    /\ ~FLess(delta_cp[1][1], KuttaTol)

\* C7 as stated: after every quilt call, the first timestep included, every
\* swimmer's Wake.alpha[0] equals Edge.mu[1] - Edge.mu[0], with Edge.mu[0] the
\* value that call wrote.
C7_ShedStrengthAfterEveryCall ==
    (kPc = "done" /\ solver = "quilt") =>
        \A s \in 1..nSwimmers : FEq(Wake_alpha[s], FSub(Edge_mu[s][2], Edge_mu[s][1]))

\* C7 as the code has it: after a quilt call with i > 1 every swimmer's
\* Wake.alpha[0] holds the difference Edge.mu[1] - Edge.mu[0] computed from the
\* Edge.mu[0] that call wrote (the same float, NaN when the guess is NaN); a
\* quilt call with i <= 1 leaves Wake.alpha[0] as it was.
C7_ShedStrengthAfterSecondStep ==
    (kPc = "done" /\ solver = "quilt") =>
        \A s \in 1..nSwimmers :
            /\ Edge_mu[s][1] = mu_guess[s][1]
            /\ quilt_i > 1 => Wake_alpha[s] = FSub(Edge_mu[s][2], Edge_mu[s][1])
            /\ quilt_i <= 1 => Wake_alpha[s] = hWakeAlpha[s]

\* C7's case: a quilt call with i > 1 has finished for two swimmers with a
\* non-zero previous edge strength and has replaced their shed strength.
C7_Witness ==
    /\ kPc = "done" /\ solver = "quilt" /\ quilt_i > 1 /\ nSwimmers > 1
    /\ \A s \in 1..nSwimmers :
          /\ Edge_mu[s][2] # Zero /\ Edge_mu[s][1] # Zero
          /\ IsFinite(Wake_alpha[s]) /\ Wake_alpha[s] # hWakeAlpha[s]

\* C10: when the loop reaches the 1000-iteration cap without delta_cp < 1e-4,
\* quilt finishes the bookkeeping with the guess of the last iteration and
\* surfaces a warning from which the caller can tell the solve did not
\* converge.  (Nothing in quilt prints, logs, flags or returns anything.)
C10_CapReachedIsReported ==
    (kPc = "done" /\ SingleBodyKutta(nSwimmers, SW_KUTTA)
        /\ n_iter = KuttaCap /\ ~FLess(delta_cp[1][1], KuttaTol)) =>
        /\ Edge_mu[1][1] = mu_guess[1][1]
        /\ kuttaWarnings > 0

\* ----------------------------------------------------------- wake: claims
\* The window of the latest rollup call, as positions of the sequence.
InLatestWindow(a) ==
    IF rollupUsed = "wake_rollup" THEN a <= wake_i ELSE 2 <= a /\ a <= wake_i + 1

\* The number of elements and their order: element k was shed at timestep k.
WakeInTimestepOrder ==
    \A s \in 1..WakeSwimmers :
        /\ Len(Wake_x[s]) = (IF wakePc = "shed" THEN wake_i ELSE wake_i + 1)
        /\ Len(Wake_shedAt[s]) = Len(Wake_x[s])
        /\ \A a \in 1..Len(Wake_shedAt[s]) : Wake_shedAt[s][a] = a - 1

\* C6 as stated: after i completed timesteps each wake holds exactly i
\* elements in timestep order, and the position of element k is not modified
\* by a rollup call made after the rollup of timestep k+1.
C6_WakePositionsFrozen ==
    /\ WakeInTimestepOrder
    /\ wakePc = "end" =>
          \A s \in 1..WakeSwimmers : \A a \in 1..Len(Wake_x[s]) :
              wake_i > Wake_shedAt[s][a] + 1 => Wake_x[s][a] = hWakeBefore[s][a]

\* C6 as the code has it: after i completed timesteps each wake holds exactly
\* i elements in timestep order; a rollup call changes neither their number
\* nor their order, moves every element of its window by velocity * DEL_T,
\* however long ago the element was shed, and leaves the other positions.
C6_WakeGrowsAndRollsUp ==
    /\ WakeInTimestepOrder
    /\ wakePc = "end" =>
          \A s \in 1..WakeSwimmers :
              /\ Len(Wake_x[s]) = Len(hWakeBefore[s])
              /\ \A a \in 1..Len(Wake_x[s]) :
                    IF wake_i > 0 /\ InLatestWindow(a)
                    THEN LET j == IF rollupUsed = "wake_rollup" THEN a ELSE a - 1
                         IN  /\ Wake_x[s][a][1] =
                                  FAdd(hWakeBefore[s][a][1], FMul(hWakeVel[s][j][1], DEL_T))
                             /\ Wake_x[s][a][2] =
                                  FAdd(hWakeBefore[s][a][2], FMul(hWakeVel[s][j][2], DEL_T))
                    ELSE Wake_x[s][a] = hWakeBefore[s][a]

\* C6's case: a rollup at timestep 3 or later has moved the element shed at
\* timestep 1.
C6_Witness ==
    /\ wakePc = "end" /\ wake_i >= 3
    /\ \A s \in 1..WakeSwimmers :
          /\ Len(Wake_x[s]) = wake_i + 1
          /\ Wake_shedAt[s][2] = 1
          /\ Wake_x[s][2] # hWakeBefore[s][2]

\* ------------------------------------------- quilt and oquilt: more claims
\* C11: with one swimmer whose SW_KUTTA is 0, or with more than one swimmer,
\* quilt and oquilt make exactly one pass of the solve loop: Body.pressure has
\* been called once per swimmer, a_inv is still the inverse of the augmented
\* matrix, and every swimmer's mu_guess[0] is Body.mu[last] - Body.mu[first].
C11_ExplicitKuttaSolvesOnce ==
    (nSwimmers > 1 \/ SW_KUTTA = 0) =>
        /\ kPc = "loop" => n_iter = 0
        /\ kPc \in {"post", "done"} =>
              /\ n_iter = 1
              /\ a_inv = "augmented"
              /\ \A s \in 1..nSwimmers :
                    /\ pressureCalls[s] = 1
                    /\ mu_guess[s][1] = FSub(Body_mu[s][NPanels], Body_mu[s][1])

\* C11's case: a call for two swimmers with SW_KUTTA enabled has returned with
\* a non-zero edge-strength guess for the second swimmer.
C11_Witness ==
    /\ kPc = "done" /\ nSwimmers > 1 /\ SW_KUTTA = 1
    /\ mu_guess[2][1] # Zero /\ IsFinite(mu_guess[2][1])

\* C16: within a call Body.mu_past is as it was at entry until the solve loop
\* has exited; on return row 0 is the final Body.mu and row 1 is the row 0 held
\* before the call, so from the second call on row 1 is the Body.mu that the
\* preceding call produced.
C16_MuPastShiftsOncePerCall ==
    /\ kPc \in {"loop", "post"} => Body_mu_past = hMuPastAtEntry
    /\ kPc = "done" =>
          \A s \in 1..nSwimmers :
              /\ Body_mu_past[s][1] = Body_mu[s]
              /\ Body_mu_past[s][2] = hMuPastAtEntry[s][1]
              /\ hPrevBodyMu[s] # <<>> => Body_mu_past[s][2] = hPrevBodyMu[s]

\* C16's case: a second or later call of a single swimmer with SW_KUTTA enabled
\* has returned after two or more loop passes, and the two calls produced
\* different non-zero doublet distributions.
C16_Witness ==
    /\ kPc = "done" /\ nSwimmers = 1 /\ SW_KUTTA = 1 /\ n_iter >= 2
    /\ hPrevBodyMu[1] # <<>>
    /\ hPrevBodyMu[1] # PanelMu(Zero, Zero)
    /\ Body_mu[1] # PanelMu(Zero, Zero)
    /\ hPrevBodyMu[1] # Body_mu[1]

\* C17: on return from quilt every swimmer's Edge.mu[0] is its final
\* mu_guess[0] (the guess of the pass at which the loop exited) and Edge.gamma
\* is (-Edge.mu[0], +Edge.mu[0]).
C17_EdgeStrengthIsFinalGuess ==
    (kPc = "done" /\ solver = "quilt") =>
        \A s \in 1..nSwimmers :
            /\ Edge_mu[s][1] = mu_guess[s][1]
            /\ Edge_gamma[s][1] = FNeg(Edge_mu[s][1])
            /\ Edge_gamma[s][2] = Edge_mu[s][1]

\* C17's case: a single-body solve that converged at its third or a later pass
\* with a non-zero guess has returned.
C17_Witness ==
    /\ kPc = "done" /\ solver = "quilt"
    /\ nSwimmers = 1 /\ SW_KUTTA = 1 /\ n_iter >= 3
    /\ FLess(delta_cp[1][1], KuttaTol)
    /\ IsFinite(Edge_mu[1][1]) /\ Edge_mu[1][1] # Zero

\* C18: in pass 2 of the loop a_inv becomes the inverse of the unaugmented
\* matrix a and stays so in every later pass, the previous slots receive the
\* first guess (Body.mu[last] - Body.mu[first]) and its delta_cp, and the new
\* guess is 0.8 times the first guess.
C18_SecondPass ==
    [][ /\ (kPc = "loop" /\ n_iter = 1 /\ n_iter' = 2) =>
              /\ a_inv' = "unaugmented"
              /\ mu_guess[1][1] = FSub(Body_mu[1][NPanels], Body_mu[1][1])
              /\ mu_guess'[1][2] = mu_guess[1][1]
              /\ delta_cp'[1][2] = delta_cp[1][1]
              /\ mu_guess'[1][1] = FMul(<<4, 5>>, mu_guess[1][1])
        /\ (kPc = "loop" /\ n_iter >= 2 /\ n_iter' = n_iter + 1) =>
              a_inv' = "unaugmented" ]_vars

\* C18's case: the second pass has been made from a non-zero first guess.
C18_Witness ==
    /\ n_iter = 2 /\ kPc \in {"loop", "post"}
    /\ IsFinite(mu_guess[1][2]) /\ mu_guess[1][2] # Zero
    /\ delta_cp[1][2] = One

\* C19: in every pass n >= 3 the slope is (d(n-1) - d(n-2)) / (g(n-1) - g(n-2))
\* from the pairs stored by the two passes before, the pair of pass n-1 moves
\* to the previous slot, and the new guess is g(n-1) - d(n-1) / slope.
C19_SecantPass ==
    [][ (kPc = "loop" /\ n_iter >= 2 /\ n_iter' = n_iter + 1) =>
            LET g1 == mu_guess[1][1]
                g2 == mu_guess[1][2]
                d1 == delta_cp[1][1]
                d2 == delta_cp[1][2]
                slope == FDiv(FSub(d1, d2), FSub(g1, g2))
            IN  /\ mu_guess'[1][2] = g1
                /\ delta_cp'[1][2] = d1
                /\ mu_guess'[1][1] = FSub(g1, FDiv(d1, slope)) ]_vars

\* C19's case: a secant pass that followed a secant pass has produced a finite
\* guess different from the one before.
C19_Witness ==
    /\ n_iter >= 4 /\ kPc \in {"loop", "post"}
    /\ IsFinite(mu_guess[1][1]) /\ IsFinite(mu_guess[1][2])
    /\ mu_guess[1][1] # mu_guess[1][2]

\* ------------------------------------------------------ FSI: more claims
\* C13: setInterfaceForce sets the beam solver's initial state on the first
\* sub-iteration only.  With outerCorr <= 1 and i_t <= 1, U_n, Udot_n and the
\* three nPlus vectors are zero after the call; with outerCorr <= 1 and
\* i_t > 1 the clamped DOFs of U_n and Udot_n are zero and the free DOFs are
\* the U_nPlus and Udot_nPlus held when the call was made; with outerCorr > 1
\* the call leaves U_n and Udot_n as they were.
C13_BeamInitialState ==
    [][ (fsiPc = "force" /\ fsiPc' = "solve") =>
            LET clamped == 3 * fixedCounter
                dofs == 3 * NSolidNodes
                Zeros(v, n) == Len(v) = n /\ \A d \in 1..n : v[d] = Zero
                Carried(v, plus) ==
                    /\ Len(v) = dofs
                    /\ \A d \in 1..clamped : v[d] = Zero
                    /\ \A d \in 1..(dofs - clamped) : v[clamped + d] = plus[d]
            IN  /\ (outerCorr <= 1 /\ i_t <= 1) =>
                      /\ Zeros(PyFEA_U_n', dofs) /\ Zeros(PyFEA_Udot_n', dofs)
                      /\ Zeros(PyFEA_U_nPlus', dofs - clamped)
                      /\ Zeros(PyFEA_Udot_nPlus', dofs - clamped)
                      /\ Zeros(PyFEA_UdotDot_nPlus', dofs - clamped)
                /\ (outerCorr <= 1 /\ i_t > 1) =>
                      /\ Carried(PyFEA_U_n', PyFEA_U_nPlus)
                      /\ Carried(PyFEA_Udot_n', PyFEA_Udot_nPlus)
                /\ outerCorr > 1 =>
                      /\ PyFEA_U_n' = PyFEA_U_n
                      /\ PyFEA_Udot_n' = PyFEA_Udot_n ]_vars

\* C13's case: in a timestep after the first, a later sub-iteration has begun
\* with an initial state carried over from a deflected beam, and the solve of
\* the first sub-iteration has left a different end state.
C13_Witness ==
    /\ fsiPc = "solve" /\ i_t > 1 /\ outerCorr > 1
    /\ PyFEA_U_n[3 * fixedCounter + 2] # Zero
    /\ PyFEA_U_n[3 * fixedCounter + 2] # PyFEA_U_nPlus[2]

\* C20: initialFsiResidualNorm and maxInitialFsiResidualNorm are those of the
\* latest calcFSIResidual call with outerCorr == 1, and after a call with
\* outerCorr > 1 fsiResidualNorm and maxFsiResidualNorm are the raw L2 and
\* infinity norms of the new residual divided by them (L2 norms by square).
C20_NormsScaledByFirstSubIteration ==
    /\ initialFsiResidualNorm = hInitL2
    /\ maxInitialFsiResidualNorm = hInitLinf
    /\ (fsiPc = "relax" /\ outerCorr > 1) =>
          /\ fsiResidualNorm = FDiv(Norm2Sq(fsiResidual), hInitL2)
          /\ maxFsiResidualNorm = FDiv(NormInf(fsiResidual, Len(fsiResidual)), hInitLinf)

\* C20's case: in a timestep after the first, a residual computed at a later
\* sub-iteration is smaller than the one cached at the first.
C20_Witness ==
    /\ fsiPc = "relax" /\ outerCorr > 1 /\ i_t > 1
    /\ IsFinite(fsiResidualNorm) /\ FLess(Zero, fsiResidualNorm) /\ FLess(fsiResidualNorm, One)
    /\ IsFinite(maxFsiResidualNorm) /\ FLess(maxFsiResidualNorm, One)

\* ------------------------------------------------------ transfer: claims
\* C12: in the linear mode of setInterfaceForce and of getDisplacements a
\* query arclength outside the source grid gets the value of the source data
\* at the nearest end of the grid.  (setInterfaceForce gives 0 and
\* getDisplacements gives 1 there.)
C12_OutOfRangeClamps ==
    /\ transferPc = "loads" =>
          \A k \in 1..Len(transferIn.query) :
              LET x == transferIn.query[k]
                  n == Len(transferIn.grid)
              IN  /\ FLess(x, transferIn.grid[1]) => nodalInput[k] = transferIn.data[1]
                  /\ FLess(transferIn.grid[n], x) => nodalInput[k] = transferIn.data[n]
    /\ transferPc = "panels" =>
          \A j \in 1..Len(transferIn.meanline) :
              LET x == transferIn.meanline[j]
                  n == Len(transferIn.grid)
                  src == IF j <= HalfRounded(Len(transferIn.meanline))
                         THEN transferIn.bottom ELSE transferIn.top
              IN  /\ FLess(x, transferIn.grid[1]) => panelInterp[j] = src[1]
                  /\ FLess(transferIn.grid[n], x) => panelInterp[j] = src[n]

\* C14: after getDisplacements every panel node j, 0 <= j <= Body.N, whose
\* arclength meanline_p0[j] is <= FLEX_RATIO has DU[j] == (0, 0).  (The
\* override loop stops before the last node.)
C14_RigidNodesKeepPosition ==
    transferPc = "panels" =>
        \A j \in 1..Len(transferIn.meanline) :
            FLeq(transferIn.meanline[j], transferIn.flex) => panelDU[j] = <<Zero, Zero>>

\* ---------------------------------------------------- wake: more claims
\* C15: wake_rollup moves every swimmer's wake by one explicit Euler step whose
\* velocity, u_psi included, is the one induced by the wakes of all swimmers as
\* they were when wake_rollup was called.  (From the second swimmer of the list
\* on, u_psi is computed from wakes that the call has already moved.)
C15_RollupIsOneEulerStep ==
    (wakePc = "end" /\ rollupUsed = "wake_rollup" /\ wake_i >= 1) =>
        \A s \in 1..WakeSwimmers :
            LET NT == get_relevant(wake_i)[1]
                vel == [j \in 1..NT |->
                           TotalVelocity(InducedVelocity(hWakeFields[1], s, j),
                                         UPsi(hWakeBefore, hWakeFields[2], wake_i, s, j))]
            IN  \A j \in 1..NT :
                    /\ Wake_x[s][j][1] = FAdd(hWakeBefore[s][j][1], FMul(vel[j][1], DEL_T))
                    /\ Wake_x[s][j][2] = FAdd(hWakeBefore[s][j][2], FMul(vel[j][2], DEL_T))

\* ---------------------------------------------------- quilt: more claims
\* C21: whenever the secant branch of the Kutta loop is about to run (pass
\* n >= 3), the two stored guesses differ and the two stored pressure jumps
\* differ, so that the slope and the step delta_cp[0] / slope are defined.
\* (A first guess of 0 gives a second guess of 0; and two different guesses
\* may have the same pressure jump.)
C21_SecantIsDefined ==
    (kPc = "loop" /\ n_iter >= 2) =>
        /\ ~FEq(mu_guess[1][1], mu_guess[1][2])
        /\ ~FEq(delta_cp[1][1], delta_cp[1][2])

\* C22: a wake_rollup call at step i changes, for each swimmer, only the wake
\* positions inside the relevant window (NT, i_0) = Wake.get_relevant(i): the
\* wake strengths, the length and the order of the wake arrays and the
\* positions outside the window stay as they are, and a call with i = 0
\* changes nothing.
C22_RollupChangesWindowOnly ==
    [][(wakePc = "rollup" /\ wakePc' = "end" /\ rollupUsed' = "wake_rollup") =>
          /\ Wake_strength' = Wake_strength
          /\ Wake_shedAt' = Wake_shedAt
          /\ wake_i = 0 => Wake_x' = Wake_x
          /\ \A s \in 1..WakeSwimmers :
                /\ Len(Wake_x'[s]) = Len(Wake_x[s])
                /\ \A a \in 1..Len(Wake_x[s]) :
                      ~(get_relevant(wake_i)[2] < a
                        /\ a <= get_relevant(wake_i)[2] + get_relevant(wake_i)[1])
                          => Wake_x'[s][a] = Wake_x[s][a]]_vars

\* C22 witness: wake_rollup has moved a position inside the window of a wake
\* that has an element behind the window.
C22_Witness ==
    /\ wakePc = "end" /\ rollupUsed = "wake_rollup" /\ wake_i >= 1
    /\ \E s \in 1..WakeSwimmers :
          /\ Len(Wake_x[s]) > get_relevant(wake_i)[2] + get_relevant(wake_i)[1]
          /\ Wake_x[s][1] # hWakeBefore[s][1]
          /\ Len(Wake_strength[s]) = Len(Wake_x[s])

\* The sum of the entries 1..n of a sequence of numbers, added in index order.
RECURSIVE SumTo(_, _)
SumTo(xs, n) == IF n = 0 THEN Zero ELSE FAdd(SumTo(xs, n - 1), xs[n])

\* C23: after quilt (or oquilt) returns, each swimmer's Body.gamma is
\* (-mu[0], mu[0]-mu[1], ..., mu[N-2]-mu[N-1], mu[N-1]), its entries sum to
\* zero, and the two entries of Edge.gamma sum to zero, for every Body.mu.
\* (A secant step that divides by zero leaves a guess and a Body.mu that are
\* not numbers, and the sums are then not zero.)
C23_GammaSumsToZero ==
    kPc = "done" =>
        \A s \in 1..nSwimmers :
            /\ \A k \in 1..(NPanels + 1) :
                  Body_gamma[s][k] =
                      IF k = 1 THEN FNeg(Body_mu[s][1])
                      ELSE IF k = NPanels + 1 THEN Body_mu[s][NPanels]
                      ELSE FSub(Body_mu[s][k - 1], Body_mu[s][k])
            /\ FEq(SumTo(Body_gamma[s], NPanels + 1), Zero)
            /\ FEq(FAdd(Edge_gamma[s][1], Edge_gamma[s][2]), Zero)

\* ------------------------------------------------ transfer: more claims
\* The sum of the rows 1..n of a sequence of forces, component by component.
RECURSIVE ForceSum(_, _)
ForceSum(F, n) ==
    IF n = 0 THEN <<Zero, Zero>>
    ELSE <<FAdd(ForceSum(F, n - 1)[1], F[n][1]), FAdd(ForceSum(F, n - 1)[2], F[n][2])>>

\* C24: the load collapse of setInterfaceForce conserves the total force: the
\* collapsed forces colPF sum to the sum of the panel forces pF over all N
\* body panels, for every panel count N.  (For an odd N the middle panel is
\* in no pair and its force is lost.)
C24_CollapseConservesForce ==
    transferPc = "collapse" =>
        ForceSum(colPF, Len(colPF)) = ForceSum(transferIn.pF, Len(transferIn.pF))

\* ---------------------------------------------------- quilt: the index loop
\* C25: after the index loop at the start of quilt (and oquilt) the offsets
\* i_b, i_e, i_w of the swimmers are the prefix sums of Body.N, Edge.N and the
\* relevant wake count, so the row ranges [i_b, i_b + Body.N) of the swimmers
\* are pairwise disjoint and cover exactly [0, n_b), and every block
\* [r0, rn) x [c0, cn) written into the n_b x n_b matrices lies inside them.
C25_OffsetsArePrefixSums ==
    kPc # "idle" =>
        /\ Len(i_b) = nSwimmers /\ Len(i_e) = nSwimmers /\ Len(i_w) = nSwimmers
        /\ i_b[1] = 0 /\ i_e[1] = 0 /\ i_w[1] = 0
        /\ \A s \in 1..(nSwimmers - 1) :
              /\ i_b[s + 1] = i_b[s] + NPanels
              /\ i_e[s + 1] = i_e[s] + EdgeN
              /\ i_w[s + 1] = i_w[s] + get_relevant(quilt_i)[1]
        /\ n_b = i_b[nSwimmers] + NPanels
        /\ n_e = i_e[nSwimmers] + EdgeN
        /\ n_w = i_w[nSwimmers] + get_relevant(quilt_i)[1]
        /\ \A r \in 0..(n_b - 1) :
              Cardinality({s \in 1..nSwimmers : i_b[s] <= r /\ r < i_b[s] + NPanels}) = 1
        /\ \A sI \in 1..nSwimmers, sT \in 1..nSwimmers :
              /\ 0 <= i_b[sI] /\ i_b[sI] < i_b[sI] + NPanels /\ i_b[sI] + NPanels <= n_b
              /\ 0 <= i_b[sT] /\ i_b[sT] < i_b[sT] + NPanels /\ i_b[sT] + NPanels <= n_b

\* C25 witness: the index loop has run for several swimmers whose wakes have
\* relevant elements, and a swimmer after the first has offsets above 0.
C25_Witness ==
    /\ kPc = "loop" /\ nSwimmers >= 2 /\ quilt_i >= 1
    /\ i_b[2] = NPanels /\ i_e[2] = EdgeN /\ i_w[2] = quilt_i
    /\ n_b = 2 * NPanels

====
